---- MODULE Spec2Model ----
(***************************************************************************)
(* faas-service (src/faas-service/src/main.rs): an axum HTTP service with  *)
(* a shared AppState { data: RwLock<HashMap<String, Value>>,               *)
(* request_count: RwLock<u64> }.  Every request runs its handler as an     *)
(* independent tokio task; the handlers meet only at the two RwLocks.      *)
(*                                                                         *)
(* A request occupies a slot of Reqs from its arrival to the moment its    *)
(* response has been sent (Respond).  Each handler is cut at its .await    *)
(* points and at its accesses to the shared state.                         *)
(***************************************************************************)
EXTENDS Integers, Sequences, FiniteSets

\* ------------------------------------------------------------- bounds
MaxReqs == 2        \* requests in flight at the same time
MaxStarted == 3     \* requests served in one behaviour
MaxClock == 1       \* seconds the wall clock advances past its first reading

\* ------------------------------------------------------------- constants
DefaultLimit == 10
DefaultOffset == 0
CREATED == 201
OK == 200
NO_CONTENT == 204
NOT_FOUND == 404

Reqs == 1..MaxReqs
Values == {"a", "b"}              \* request bodies (opaque JSON documents)
\* the QueryParams { limit: Option<usize>, offset: Option<usize> } clients send
Queries ==
    {[offset |-> {}, limit |-> {}], [offset |-> {}, limit |-> {0}],
     [offset |-> {}, limit |-> {1}], [offset |-> {1}, limit |-> {1}],
     [offset |-> {1}, limit |-> {2}]}
LockNames == {"data", "request_count"}

VARIABLES
    data,           \* AppState.data: the HashMap, a function key -> value
    ord,            \* the iteration order of the HashMap's table (its keys)
    request_count,  \* AppState.request_count
    lock,           \* the two tokio RwLocks: holders and FIFO wait queue
    now,            \* the last reading of Utc::now().timestamp(), in seconds
    req,            \* the request tasks: handler, position, locals, response,
                    \* and (history) at: the writes committed when it read data
    started,        \* history: requests that have arrived
    healthStarted,  \* history: health requests that have arrived
    log             \* history: the writes committed to data, in order

vars == <<data, ord, request_count, lock, now, req, started, healthStarted, log>>

\* ------------------------------------------------------------- helpers
Min(a, b) == IF a < b THEN a ELSE b

Range(s) == {s[i] : i \in 1..Len(s)}

\* Option::unwrap_or
unwrap_or(opt, d) == IF opt = {} THEN d ELSE CHOOSE x \in opt : TRUE

Digits == <<"0", "1", "2", "3", "4", "5", "6", "7", "8", "9">>

\* i64::to_string of a non-negative timestamp: its decimal digits
RECURSIVE to_string(_)
to_string(n) ==
    IF n < 10 THEN Digits[n + 1]
    ELSE to_string(n \div 10) \o Digits[(n % 10) + 1]

\* the keys post_data can generate within the clock's range, and the keys a
\* client names in /api/data/:key
Keys == {to_string(t) : t \in 0..MaxClock}

\* all orders in which a table holding the keys S can enumerate them
Perms(S) ==
    {p \in [1..Cardinality(S) -> S] : \A i, j \in 1..Cardinality(S) : p[i] = p[j] => i = j}

\* ------------------------------------------------------------- HashMap
\* HashMap::insert: the value of an existing key is replaced in place
\* (a variant that keeps the old value of an existing key, as entry().or_insert())
InsertKeepOld(d, k, v) ==
    IF k \in DOMAIN d THEN d ELSE [x \in DOMAIN d \cup {k} |-> IF x = k THEN v ELSE d[x]]

Insert(d, k, v) == [x \in DOMAIN d \cup {k} |-> IF x = k THEN v ELSE d[x]]

\* HashMap::remove
\* (a variant that leaves the entry in place)
RemoveNothing(d, k) == d

Remove(d, k) == [x \in DOMAIN d \ {k} |-> d[x]]

\* the enumeration orders the table can have after insert(k): an existing key
\* keeps its bucket; a new key lands in any bucket and may trigger a rehash
\* that moves every entry (the hasher's seed is random per map)
OrdAfterInsert(o, k) ==
    IF k \in Range(o) THEN {o} ELSE Perms(Range(o) \cup {k})

\* the order after remove(k): the other entries keep their buckets
OrdAfterRemove(o, k) == SelectSeq(o, LAMBDA x : x # k)

\* data.iter(): the entries in table order
Iter(d, o) == [i \in 1..Len(o) |-> [key |-> o[i], value |-> d[o[i]]]]

\* Iterator::skip(n) and Iterator::take(n)
\* (a variant of skip that drops nothing)
SkipNothing(s, n) == s

Skip(s, n) == SubSeq(s, Min(n, Len(s)) + 1, Len(s))

\* (a variant of take with a built-in page size of 1)
TakeCapped(s, n) == SubSeq(s, 1, Min(Min(n, 1), Len(s)))

Take(s, n) == SubSeq(s, 1, Min(n, Len(s)))

\* get_data's items: data.iter().skip(offset).take(limit)
ListItems(d, o, offset, limit) == Take(Skip(Iter(d, o), offset), limit)

\* ------------------------------------------------------------- RwLock
\* tokio::sync::RwLock: any number of readers or one writer; waiters are
\* served in FIFO order (write-preferring: a queued writer blocks later readers)
FreeLock == [readers |-> {}, writer |-> {}, queue |-> <<>>]

\* (variants: a lock that excludes nobody; one whose writers do not wait for
\* the readers; one that admits several writers)
CanGrantAlways(l, mode) == TRUE

CanGrantIgnoreReaders(l, mode) == l.writer = {}

CanGrantSharedWriters(l, mode) == IF mode = "write" THEN l.readers = {} ELSE l.writer = {}

CanGrant(l, mode) ==
    IF mode = "write" THEN l.readers = {} /\ l.writer = {}
    ELSE l.writer = {}

\* .read().await / .write().await: the task joins the wait queue
Enqueue(l, r, mode) == [l EXCEPT !.queue = Append(@, [r |-> r, mode |-> mode])]

\* the task at the head of the queue gets the lock when it is compatible
Grantable(l, r) ==
    /\ l.queue # <<>>
    /\ Head(l.queue).r = r
    /\ CanGrant(l, Head(l.queue).mode)

Grant(l) ==
    LET h == Head(l.queue) IN
    IF h.mode = "write"
    THEN [l EXCEPT !.writer = {h.r}, !.queue = Tail(@)]
    ELSE [l EXCEPT !.readers = @ \cup {h.r}, !.queue = Tail(@)]

\* dropping the guard
\* (a variant in which the guard is leaked and the lock stays taken)
ReleaseNothing(l, r) == l

Release(l, r) == [l EXCEPT !.readers = @ \ {r}, !.writer = @ \ {r}]

Holds(r, name) == r \in lock[name].readers \cup lock[name].writer

\* ------------------------------------------------------------- requests
Blank ==
    [op |-> "none", pc |-> "idle", key |-> "", payload |-> "", offset |-> 0,
     limit |-> 0, count |-> 0, items |-> <<>>, total |-> 0, stored |-> 0,
     status |-> 0, body |-> "", at |-> 0, query |-> [offset |-> {}, limit |-> {}]]

Init ==
    /\ data = <<>>
    /\ ord = <<>>
    /\ request_count = 0
    /\ lock = [n \in LockNames |-> FreeLock]
    /\ now = 0
    /\ req = [r \in Reqs |-> Blank]
    /\ started = 0
    /\ healthStarted = 0
    /\ log = <<>>

\* a request arrives and is dispatched to the lowest free task slot
CanStart(r) ==
    /\ req[r].pc = "idle"
    /\ \A q \in Reqs : q < r => req[q].pc # "idle"
    /\ started < MaxStarted

\* the awaited lock is granted to request r
Acquire(r, name, from, to) ==
    /\ req[r].pc = from
    /\ Grantable(lock[name], r)
    /\ lock' = [lock EXCEPT ![name] = Grant(@)]
    /\ req' = [req EXCEPT ![r].pc = to]
    /\ UNCHANGED <<data, ord, request_count, now, started, healthStarted, log>>

\* ---- GET /health
StartHealth(r) ==
    /\ CanStart(r)
    /\ req' = [req EXCEPT ![r] = [Blank EXCEPT !.op = "health", !.pc = "wait"]]
    /\ lock' = [lock EXCEPT !["request_count"] = Enqueue(@, r, "write")]
    /\ started' = started + 1
    /\ healthStarted' = healthStarted + 1
    /\ UNCHANGED <<data, ord, request_count, now, log>>

HealthAcquire(r) ==
    /\ req[r].op = "health"
    /\ Acquire(r, "request_count", "wait", "held")

\* *count += 1, the read of the old value
HealthLoad(r) ==
    /\ req[r].op = "health"
    /\ req[r].pc = "held"
    /\ req' = [req EXCEPT ![r].pc = "loaded", ![r].count = request_count]
    /\ UNCHANGED <<data, ord, request_count, lock, now, started, healthStarted, log>>

\* *count += 1, the write; then the response is built and the guard dropped
\* (the u64 cannot wrap within the MaxStarted requests of a behaviour)
HealthStore(r) ==
    /\ req[r].op = "health"
    /\ req[r].pc = "loaded"
    /\ request_count' = req[r].count + 1
    /\ lock' = [lock EXCEPT !["request_count"] = Release(@, r)]
    /\ req' = [req EXCEPT ![r].pc = "done", ![r].status = OK, ![r].body = "healthy"]
    /\ UNCHANGED <<data, ord, now, started, healthStarted, log>>

\* ---- GET /api/status
StartStatus(r) ==
    /\ CanStart(r)
    /\ req' = [req EXCEPT ![r] = [Blank EXCEPT !.op = "status", !.pc = "wait"]]
    /\ lock' = [lock EXCEPT !["request_count"] = Enqueue(@, r, "read")]
    /\ started' = started + 1
    /\ UNCHANGED <<data, ord, request_count, now, healthStarted, log>>

StatusAcquire(r) ==
    /\ req[r].op = "status"
    /\ Acquire(r, "request_count", "wait", "held")

\* (a variant that counts the status call as a request)
StatusReadCounts(r) ==
    /\ req[r].op = "status"
    /\ req[r].pc = "held"
    /\ request_count' = request_count + 1
    /\ lock' = [lock EXCEPT !["request_count"] = Release(@, r)]
    /\ req' = [req EXCEPT ![r].pc = "done", ![r].count = request_count + 1,
                          ![r].status = OK]
    /\ UNCHANGED <<data, ord, now, started, healthStarted, log>>

\* let count = *guard; the temporary guard is dropped with the statement
StatusRead(r) ==
    /\ req[r].op = "status"
    /\ req[r].pc = "held"
    /\ lock' = [lock EXCEPT !["request_count"] = Release(@, r)]
    /\ req' = [req EXCEPT ![r].pc = "done", ![r].count = request_count,
                          ![r].status = OK]
    /\ UNCHANGED <<data, ord, request_count, now, started, healthStarted, log>>

\* ---- GET /api/data?limit&offset
StartList(r) ==
    /\ CanStart(r)
    /\ \E params \in Queries :
        req' = [req EXCEPT ![r] = [Blank EXCEPT !.op = "list", !.pc = "wait",
                                       !.query = params,
                                       !.limit = unwrap_or(params.limit, DefaultLimit),
                                       !.offset = unwrap_or(params.offset, DefaultOffset)]]
    /\ lock' = [lock EXCEPT !["data"] = Enqueue(@, r, "read")]
    /\ started' = started + 1
    /\ UNCHANGED <<data, ord, request_count, now, healthStarted, log>>

ListAcquire(r) ==
    /\ req[r].op = "list"
    /\ Acquire(r, "data", "wait", "held")

\* data.iter().skip(offset).take(limit).map(..).collect()
ListEnumerate(r) ==
    /\ req[r].op = "list"
    /\ req[r].pc = "held"
    /\ req' = [req EXCEPT ![r].pc = "enumerated", ![r].at = Len(log),
                          ![r].items = ListItems(data, ord, req[r].offset, req[r].limit)]
    /\ UNCHANGED <<data, ord, request_count, lock, now, started, healthStarted, log>>

\* "total": data.len(); then the guard is dropped
ListLen(r) ==
    /\ req[r].op = "list"
    /\ req[r].pc = "enumerated"
    /\ lock' = [lock EXCEPT !["data"] = Release(@, r)]
    /\ req' = [req EXCEPT ![r].pc = "done", ![r].total = Cardinality(DOMAIN data),
                          ![r].status = OK]
    /\ UNCHANGED <<data, ord, request_count, now, started, healthStarted, log>>

\* ---- POST /api/data
\* the key is Utc::now().timestamp(), read before the lock is requested; the
\* clock is read nowhere else, and any whole number of seconds may have passed
\* since its last reading
StartPost(r) ==
    /\ CanStart(r)
    /\ now' \in now..MaxClock
    /\ \E v \in Values :
        req' = [req EXCEPT ![r] = [Blank EXCEPT !.op = "post", !.pc = "wait",
                                       !.payload = v, !.key = to_string(now')]]
    /\ lock' = [lock EXCEPT !["data"] = Enqueue(@, r, "write")]
    /\ started' = started + 1
    /\ UNCHANGED <<data, ord, request_count, healthStarted, log>>

PostAcquire(r) ==
    /\ req[r].op = "post"
    /\ Acquire(r, "data", "wait", "held")

\* data.insert(key.clone(), payload); 201 with the key; the guard is dropped
PostInsert(r) ==
    /\ req[r].op = "post"
    /\ req[r].pc = "held"
    /\ data' = Insert(data, req[r].key, req[r].payload)
    /\ ord' \in OrdAfterInsert(ord, req[r].key)
    /\ log' = Append(log, [op |-> "put", key |-> req[r].key, value |-> req[r].payload])
    /\ lock' = [lock EXCEPT !["data"] = Release(@, r)]
    /\ req' = [req EXCEPT ![r].pc = "done", ![r].at = Len(log), ![r].status = CREATED]
    /\ UNCHANGED <<request_count, now, started, healthStarted>>

\* ---- GET /api/data/:key
StartGet(r) ==
    /\ CanStart(r)
    /\ \E k \in Keys :
        req' = [req EXCEPT ![r] = [Blank EXCEPT !.op = "get", !.pc = "wait", !.key = k]]
    /\ lock' = [lock EXCEPT !["data"] = Enqueue(@, r, "read")]
    /\ started' = started + 1
    /\ UNCHANGED <<data, ord, request_count, now, healthStarted, log>>

GetAcquire(r) ==
    /\ req[r].op = "get"
    /\ Acquire(r, "data", "wait", "held")

\* (a variant that takes the value out of the map instead of cloning it)
GetLookupRemoves(r) ==
    /\ req[r].op = "get"
    /\ req[r].pc = "held"
    /\ data' = Remove(data, req[r].key)
    /\ ord' = OrdAfterRemove(ord, req[r].key)
    /\ lock' = [lock EXCEPT !["data"] = Release(@, r)]
    /\ req' = IF req[r].key \in DOMAIN data
              THEN [req EXCEPT ![r].pc = "done", ![r].at = Len(log), ![r].status = OK,
                               ![r].body = data[req[r].key]]
              ELSE [req EXCEPT ![r].pc = "done", ![r].at = Len(log),
                               ![r].status = NOT_FOUND]
    /\ UNCHANGED <<request_count, now, started, healthStarted, log>>

\* match data.get(&key) { Some(value) => Ok(value.clone()), None => 404 }
GetLookup(r) ==
    /\ req[r].op = "get"
    /\ req[r].pc = "held"
    /\ lock' = [lock EXCEPT !["data"] = Release(@, r)]
    /\ req' = IF req[r].key \in DOMAIN data
              THEN [req EXCEPT ![r].pc = "done", ![r].at = Len(log), ![r].status = OK,
                               ![r].body = data[req[r].key]]
              ELSE [req EXCEPT ![r].pc = "done", ![r].at = Len(log),
                               ![r].status = NOT_FOUND]
    /\ UNCHANGED <<data, ord, request_count, now, started, healthStarted, log>>

\* ---- DELETE /api/data/:key
StartDelete(r) ==
    /\ CanStart(r)
    /\ \E k \in Keys :
        req' = [req EXCEPT ![r] = [Blank EXCEPT !.op = "delete", !.pc = "wait", !.key = k]]
    /\ lock' = [lock EXCEPT !["data"] = Enqueue(@, r, "write")]
    /\ started' = started + 1
    /\ UNCHANGED <<data, ord, request_count, now, healthStarted, log>>

DeleteAcquire(r) ==
    /\ req[r].op = "delete"
    /\ Acquire(r, "data", "wait", "held")

\* the status of match data.remove(&key) { Some(_) => 204, None => 404 }
\* (and a variant that answers 204 whatever remove returned)
DeleteStatusAlways204(d, k) == NO_CONTENT

DeleteStatus(d, k) == IF k \in DOMAIN d THEN NO_CONTENT ELSE NOT_FOUND

\* data.remove(&key) and its status; the guard is dropped
DeleteRemove(r) ==
    /\ req[r].op = "delete"
    /\ req[r].pc = "held"
    /\ data' = Remove(data, req[r].key)
    /\ ord' = OrdAfterRemove(ord, req[r].key)
    /\ log' = IF req[r].key \in DOMAIN data
              THEN Append(log, [op |-> "del", key |-> req[r].key, value |-> ""])
              ELSE log
    /\ lock' = [lock EXCEPT !["data"] = Release(@, r)]
    /\ req' = [req EXCEPT ![r].pc = "done", ![r].at = Len(log),
                          ![r].status = DeleteStatus(data, req[r].key)]
    /\ UNCHANGED <<request_count, now, started, healthStarted>>

\* ---- GET /api/metrics
StartMetrics(r) ==
    /\ CanStart(r)
    /\ req' = [req EXCEPT ![r] = [Blank EXCEPT !.op = "metrics", !.pc = "wait"]]
    /\ lock' = [lock EXCEPT !["request_count"] = Enqueue(@, r, "read")]
    /\ started' = started + 1
    /\ UNCHANGED <<data, ord, request_count, now, healthStarted, log>>

MetricsAcquireCount(r) ==
    /\ req[r].op = "metrics"
    /\ Acquire(r, "request_count", "wait", "held")

\* (a variant that binds the guard to a local, so that it lives to the end of
\* the function: let guard = state.request_count.read().await)
MetricsReadCountKeepGuard(r) ==
    /\ req[r].op = "metrics"
    /\ req[r].pc = "held"
    /\ lock' = [lock EXCEPT !["data"] = Enqueue(@, r, "read")]
    /\ req' = [req EXCEPT ![r].pc = "wait_data", ![r].count = request_count]
    /\ UNCHANGED <<data, ord, request_count, now, started, healthStarted, log>>

\* let count = *guard; the guard is dropped with the statement and the next
\* statement asks for data.read()
MetricsReadCount(r) ==
    /\ req[r].op = "metrics"
    /\ req[r].pc = "held"
    /\ lock' = [lock EXCEPT !["request_count"] = Release(@, r),
                            !["data"] = Enqueue(@, r, "read")]
    /\ req' = [req EXCEPT ![r].pc = "wait_data", ![r].count = request_count]
    /\ UNCHANGED <<data, ord, request_count, now, started, healthStarted, log>>

MetricsAcquireData(r) ==
    /\ req[r].op = "metrics"
    /\ Acquire(r, "data", "wait_data", "held_data")

\* let data_count = guard.len(); the guard is dropped with the statement
MetricsReadLen(r) ==
    /\ req[r].op = "metrics"
    /\ req[r].pc = "held_data"
    /\ lock' = [lock EXCEPT !["data"] = Release(@, r)]
    /\ req' = [req EXCEPT ![r].pc = "done", ![r].at = Len(log),
                          ![r].stored = Cardinality(DOMAIN data), ![r].status = OK]
    /\ UNCHANGED <<data, ord, request_count, now, started, healthStarted, log>>

\* ---- POST /api/echo: takes no lock and touches no shared state
Echo(r) ==
    /\ CanStart(r)
    /\ \E v \in Values :
        req' = [req EXCEPT ![r] = [Blank EXCEPT !.op = "echo", !.pc = "done",
                                       !.payload = v, !.body = v, !.status = OK]]
    /\ started' = started + 1
    /\ UNCHANGED <<data, ord, request_count, lock, now, healthStarted, log>>

\* ---- the response has been sent; the task ends
Respond(r) ==
    /\ req[r].pc = "done"
    /\ req' = [req EXCEPT ![r] = Blank]
    /\ UNCHANGED <<data, ord, request_count, lock, now, started, healthStarted, log>>

Next ==
    \E r \in Reqs :
        \/ StartHealth(r) \/ HealthAcquire(r) \/ HealthLoad(r) \/ HealthStore(r)
        \/ StartStatus(r) \/ StatusAcquire(r) \/ StatusRead(r)
        \/ StartList(r) \/ ListAcquire(r) \/ ListEnumerate(r) \/ ListLen(r)
        \/ StartPost(r) \/ PostAcquire(r) \/ PostInsert(r)
        \/ StartGet(r) \/ GetAcquire(r) \/ GetLookup(r)
        \/ StartDelete(r) \/ DeleteAcquire(r) \/ DeleteRemove(r)
        \/ StartMetrics(r) \/ MetricsAcquireCount(r) \/ MetricsReadCount(r)
        \/ MetricsAcquireData(r) \/ MetricsReadLen(r)
        \/ Echo(r)
        \/ Respond(r)

Spec == Init /\ [][Next]_vars

\* a step of the handler serving request r, after its arrival
Step(r) ==
    \/ HealthAcquire(r) \/ HealthLoad(r) \/ HealthStore(r)
    \/ StatusAcquire(r) \/ StatusRead(r)
    \/ ListAcquire(r) \/ ListEnumerate(r) \/ ListLen(r)
    \/ PostAcquire(r) \/ PostInsert(r)
    \/ GetAcquire(r) \/ GetLookup(r)
    \/ DeleteAcquire(r) \/ DeleteRemove(r)
    \/ MetricsAcquireCount(r) \/ MetricsReadCount(r)
    \/ MetricsAcquireData(r) \/ MetricsReadLen(r)

\* the tokio scheduler polls every woken task, and the lock wakes the head of
\* its queue as soon as the holders allow: a handler step that stays possible
\* is eventually taken
FairSpec == Spec /\ \A r \in Reqs : WF_vars(Step(r))

\* the same for a burst of at most MaxReqs requests, which may all be served
\* at the same time
BurstNext ==
    \E r \in Reqs :
        \/ started < MaxReqs /\ StartHealth(r)
        \/ started < MaxReqs /\ StartStatus(r)
        \/ started < MaxReqs /\ StartList(r)
        \/ started < MaxReqs /\ StartPost(r)
        \/ started < MaxReqs /\ StartGet(r)
        \/ started < MaxReqs /\ StartDelete(r)
        \/ started < MaxReqs /\ StartMetrics(r)
        \/ started < MaxReqs /\ Echo(r)
        \/ Step(r)
        \/ Respond(r)

BurstSpec == Init /\ [][BurstNext]_vars /\ \A r \in Reqs : WF_vars(Step(r))

\* request r is being served: it has arrived and not yet produced its response
InFlight(r) == req[r].pc \notin {"idle", "done"}

\* request r waits in the queue of the lock
Waits(r, name) == \E i \in 1..Len(lock[name].queue) : lock[name].queue[i].r = r

\* ------------------------------------------------------------- history
\* the first n committed writes
Prefix(n) == SubSeq(log, 1, n)

\* the last write of l that used key k
RECURSIVE LastWrite(_, _)
LastWrite(l, k) ==
    IF l = <<>> THEN [op |-> "none", key |-> k, value |-> ""]
    ELSE IF l[Len(l)].key = k THEN l[Len(l)]
    ELSE LastWrite(SubSeq(l, 1, Len(l) - 1), k)

\* the keys put and not deleted since, after the writes of l
LiveKeys(l) == {k \in Keys : LastWrite(l, k).op = "put"}

\* the records of l in the order they were put
InsertionItems(l) == [i \in 1..Len(l) |-> [key |-> l[i].key, value |-> l[i].value]]

Max(a, b) == IF a > b THEN a ELSE b

Done(r, op) == req[r].op = op /\ req[r].pc = "done"

HealthInFlight == {r \in Reqs : req[r].op = "health" /\ req[r].pc # "done"}

\* request r holds the guard of data
HoldsData(r) ==
    \/ req[r].op \in {"list", "post", "get", "delete"} /\ req[r].pc \in {"held", "enumerated"}
    \/ req[r].op = "metrics" /\ req[r].pc = "held_data"

WritesData(r) == req[r].op \in {"post", "delete"} /\ req[r].pc = "held"

\* ------------------------------------------------------------- claims

\* C1: when the health calls issued so far, however interleaved, have all
\* returned, the request_count a metrics call then reads is exactly their number.
C1_HealthCallsCounted ==
    [][\A r \in Reqs :
        (/\ req[r].op = "metrics" /\ req[r].pc = "held" /\ req'[r].pc = "wait_data"
         /\ HealthInFlight = {})
        => req'[r].count = healthStarted]_vars

C1_Witness ==
    \E r \in Reqs : Done(r, "metrics") /\ req[r].count = healthStarted /\ healthStarted >= 2

\* C2: every operation increments the counter once, so whenever no call is in
\* progress the counter equals the number of calls made.
C2_EveryCallCounted ==
    (\A r \in Reqs : req[r].pc \in {"idle", "done"}) => request_count = started

\* C3: the key post_data generates is absent from the store, and the keys of
\* all posts are pairwise distinct.
C3_GeneratedKeysDistinct ==
    /\ \A i, j \in 1..Len(log) :
        (i < j /\ log[i].op = "put" /\ log[j].op = "put") => log[i].key # log[j].key
    /\ \A r \in Reqs :
        Done(r, "post") => LastWrite(Prefix(req[r].at), req[r].key).op # "put"

\* C4: get(k) on a key put and not deleted since returns the value of the most
\* recent put that used k, whatever was put under other keys.
C4_GetReturnsLastPut ==
    \A r \in Reqs :
        Done(r, "get") =>
            LET w == LastWrite(Prefix(req[r].at), req[r].key) IN
            w.op = "put" => req[r].status = OK /\ req[r].body = w.value

C4_Witness ==
    \E r \in Reqs :
        /\ Done(r, "get") /\ req[r].status = OK /\ req[r].at >= 2
        /\ \E i, j \in 1..req[r].at :
            /\ i < j /\ log[i].op = "put" /\ log[j].op = "put"
            /\ log[i].key = req[r].key /\ log[j].key = req[r].key
            /\ log[i].value # log[j].value

\* C5: delete of an absent key answers 404 and leaves the store as it was;
\* delete of a present key answers 204, removes that key alone and makes the
\* store one entry smaller.
C5_Delete ==
    [][\A r \in Reqs :
        (req[r].op = "delete" /\ req[r].pc = "held" /\ req'[r].pc = "done") =>
            IF req[r].key \in DOMAIN data
            THEN /\ req'[r].status = NO_CONTENT
                 /\ DOMAIN data' = DOMAIN data \ {req[r].key}
                 /\ \A k \in DOMAIN data' : data'[k] = data[k]
                 /\ Cardinality(DOMAIN data') = Cardinality(DOMAIN data) - 1
            ELSE /\ req'[r].status = NOT_FOUND
                 /\ data' = data
                 /\ ord' = ord]_vars

C5_Witness ==
    \E r1, r2 \in Reqs :
        /\ Done(r1, "delete") /\ req[r1].status = NO_CONTENT
        /\ Done(r2, "delete") /\ req[r2].status = NOT_FOUND

\* C6: with no write in between, list(0, N) followed by list(N, N) gives two
\* disjoint slices whose concatenation is list(0, 2N), all with the same total.
\* The answered call is any of the three; the other two are list on the store
\* the answered call saw.
C6_Paging ==
    \A r \in Reqs :
        (Done(r, "list") /\ req[r].at = Len(log)) =>
            /\ req[r].total = Cardinality(DOMAIN data)
            /\ req[r].offset = 0 =>
                LET N == req[r].limit
                    second == ListItems(data, ord, N, N)
                IN  /\ req[r].items \o second = ListItems(data, ord, 0, 2 * N)
                    /\ Range(req[r].items) \cap Range(second) = {}
            /\ req[r].offset = req[r].limit =>
                LET N == req[r].limit
                    first == ListItems(data, ord, 0, N)
                IN  /\ first \o req[r].items = ListItems(data, ord, 0, 2 * N)
                    /\ Range(first) \cap Range(req[r].items) = {}

C6_Witness ==
    \E r \in Reqs :
        /\ Done(r, "list") /\ req[r].at = Len(log)
        /\ req[r].offset = 0 /\ req[r].limit = 1
        /\ Len(req[r].items) = 1
        /\ Len(ListItems(data, ord, 1, 1)) = 1

\* C7: a list call's items and total come from one store state: the store as
\* it was when the enumeration ran.
C7_ListSnapshot ==
    \A r \in Reqs :
        (req[r].op = "list" /\ req[r].pc \in {"enumerated", "done"}) =>
            LET l == Prefix(req[r].at)
                live == LiveKeys(l)
                items == req[r].items
            IN  /\ req[r].pc = "done" => req[r].total = Cardinality(live)
                /\ req[r].pc = "enumerated" =>
                    items = ListItems(data, ord, req[r].offset, req[r].limit)
                /\ Len(items) = Min(req[r].limit, Max(0, Cardinality(live) - req[r].offset))
                /\ \A i \in 1..Len(items) :
                    /\ items[i].key \in live
                    /\ items[i].value = LastWrite(l, items[i].key).value
                /\ \A i, j \in 1..Len(items) : items[i].key = items[j].key => i = j

C7_Witness ==
    \E r, w \in Reqs :
        /\ req[r].op = "list" /\ req[r].pc = "enumerated" /\ Len(req[r].items) >= 1
        /\ req[w].op \in {"post", "delete"} /\ req[w].pc = "wait"

\* C8: list enumerates the records in insertion order: after puts only (each
\* under its own key), list(offset, limit) returns the records put
\* offset+1-th .. offset+limit-th, in that order, and total is their number.
C8_InsertionOrder ==
    \A r \in Reqs :
        (/\ Done(r, "list")
         /\ \A i \in 1..req[r].at : log[i].op = "put"
         /\ \A i, j \in 1..req[r].at : log[i].key = log[j].key => i = j)
        => /\ req[r].items =
                Take(Skip(InsertionItems(Prefix(req[r].at)), req[r].offset), req[r].limit)
           /\ req[r].total = req[r].at

\* C9: after a put under key k, get(k) returns the value and delete(k)
\* answers 204; after that delete, get(k) and delete(k) answer 404 until k is
\* put again.
C9_Lifecycle ==
    \A r \in Reqs :
        LET w == LastWrite(Prefix(req[r].at), req[r].key) IN
        /\ Done(r, "post") =>
            /\ req[r].status = CREATED
            /\ Len(log) > req[r].at
            /\ log[req[r].at + 1] = [op |-> "put", key |-> req[r].key, value |-> req[r].payload]
        /\ Done(r, "get") =>
            IF w.op = "put" THEN req[r].status = OK /\ req[r].body = w.value
            ELSE req[r].status = NOT_FOUND
        /\ Done(r, "delete") =>
            IF w.op = "put" THEN req[r].status = NO_CONTENT
            ELSE req[r].status = NOT_FOUND

C9_Witness ==
    \E r \in Reqs :
        /\ Done(r, "get") /\ req[r].status = NOT_FOUND
        /\ LastWrite(Prefix(req[r].at), req[r].key).op = "del"

\* C10: while a put or a delete holds the store no other handler holds it,
\* and each lock has one writer or readers only.
C10_WriterExcludes ==
    /\ \A r1, r2 \in Reqs : (r1 # r2 /\ WritesData(r1)) => ~HoldsData(r2)
    /\ \A n \in LockNames :
        /\ Cardinality(lock[n].writer) <= 1
        /\ lock[n].writer # {} => lock[n].readers = {}
    /\ \A r \in Reqs :
        /\ HoldsData(r) <=> Holds(r, "data")
        /\ WritesData(r) <=> r \in lock["data"].writer

C10_Witness ==
    \E w, r \in Reqs :
        /\ WritesData(w)
        /\ req[r].op \in {"list", "get", "post", "delete"} /\ req[r].pc = "wait"

\* C11: no handler holds the store lock and the counter lock at once, nor holds
\* one while it waits for the other; and whenever a request is being served,
\* some handler can take a step (no deadlock).
C11_OneLockNoDeadlock ==
    /\ \A r \in Reqs :
        /\ ~(Holds(r, "data") /\ Holds(r, "request_count"))
        /\ ~(Holds(r, "data") /\ Waits(r, "request_count"))
        /\ ~(Holds(r, "request_count") /\ Waits(r, "data"))
    /\ (\E r \in Reqs : InFlight(r)) => ENABLED (\E r \in Reqs : Step(r))

C11_Witness ==
    \E m, h \in Reqs :
        /\ req[m].op = "metrics" /\ req[m].pc = "held_data" /\ Holds(m, "data")
        /\ req[h].op = "health" /\ Holds(h, "request_count")

\* C12: list returns min(limit, max(0, total - offset)) items, where total is
\* the full store size it reports; nothing caps limit; the result is empty
\* with status 200 when offset >= total or limit = 0; an absent offset is 0 and
\* an absent limit is 10.
C12_ListLength ==
    \A r \in Reqs :
        Done(r, "list") =>
            LET q == req[r].query
                total == Cardinality(LiveKeys(Prefix(req[r].at)))
            IN  /\ req[r].offset = IF q.offset = {} THEN 0 ELSE CHOOSE x \in q.offset : TRUE
                /\ req[r].limit = IF q.limit = {} THEN 10 ELSE CHOOSE x \in q.limit : TRUE
                /\ req[r].total = total
                /\ req[r].status = OK
                /\ Len(req[r].items) = Min(req[r].limit, Max(0, total - req[r].offset))
                /\ (req[r].offset >= total \/ req[r].limit = 0) => req[r].items = <<>>

C12_Witness ==
    \E r \in Reqs :
        /\ Done(r, "list") /\ req[r].total >= 1
        /\ req[r].offset >= req[r].total /\ req[r].limit >= 1
        /\ req[r].items = <<>>

\* C13: a put under a key that is already in the store replaces that key's
\* value, leaves the size and every other entry as they were, and still
\* answers 201 with that key.
C13_Upsert ==
    [][\A r \in Reqs :
        (/\ req[r].op = "post" /\ req[r].pc = "held" /\ req'[r].pc = "done"
         /\ req[r].key \in DOMAIN data)
        => /\ data'[req[r].key] = req[r].payload
           /\ DOMAIN data' = DOMAIN data
           /\ \A k \in DOMAIN data \ {req[r].key} : data'[k] = data[k]
           /\ Cardinality(DOMAIN data') = Cardinality(DOMAIN data)
           /\ req'[r].status = CREATED
           /\ req'[r].key = req[r].key]_vars

C13_Witness ==
    \E r \in Reqs :
        /\ Done(r, "post")
        /\ LET w == LastWrite(Prefix(req[r].at), req[r].key) IN
            w.op = "put" /\ w.value # req[r].payload
        /\ req[r].at + 1 = Len(log)
        /\ data[req[r].key] = req[r].payload
        /\ Cardinality(DOMAIN data) = 2

\* C14: no step lowers request_count, and the reads of status and metrics
\* return its value and leave it as it was.
C14_CounterMonotonic ==
    [][/\ request_count' >= request_count
       /\ \A r \in Reqs :
            (/\ req[r].op \in {"status", "metrics"}
             /\ req[r].pc = "held" /\ req'[r].pc # "held")
            => /\ request_count' = request_count
               /\ req'[r].count = request_count]_vars

C14_Witness ==
    \E r, m \in Reqs :
        /\ Done(r, "status") /\ req[r].count = 0
        /\ Done(m, "metrics") /\ req[m].count = 1
        /\ request_count = 1

\* C15: get (found or not), list, metrics, status, health and echo leave the
\* key-to-value mapping as it was; only the insert of post_data and the remove
\* of delete_data change it.
C15_ReadsLeaveStore ==
    [][/\ \A r \in Reqs :
            (/\ req'[r] # req[r]
             /\ req'[r].op \in {"get", "list", "metrics", "status", "health", "echo"})
            => data' = data
       /\ data' # data =>
            \E r \in Reqs :
                /\ req[r].op \in {"post", "delete"}
                /\ req[r].pc = "held" /\ req'[r].pc = "done"]_vars

C15_Witness ==
    \E g, l \in Reqs :
        /\ Done(g, "get") /\ req[g].status = OK /\ req[g].at = Len(log)
        /\ data[req[g].key] = req[g].body
        /\ Done(l, "list") /\ req[l].at = Len(log) /\ Len(req[l].items) = 1

\* C16: request_count is the number of health calls that have done their
\* increment (those arrived less those still before their store); no step of
\* status, list, post, get, delete, metrics or echo changes it.
C16_CounterCountsHealth ==
    request_count = healthStarted - Cardinality(HealthInFlight)

C16_Witness ==
    \E h1, h2 \in Reqs :
        /\ Done(h1, "health")
        /\ req[h2].op = "health" /\ req[h2].pc = "loaded"
        /\ request_count = 1 /\ healthStarted = 2 /\ started = 3

====
